---- MODULE Spec2Model ----
(***************************************************************************)
(* Model of inference_once.py: the batch driver that reads every image of  *)
(* a directory, encodes it on two paths, calls model.evaluate once per     *)
(* image and writes images/NAME.png, masks/NAME.png and vis/NAME.png.      *)
(*                                                                         *)
(* Strings are sequences of character codes.  Arrays are sequences of rows,*)
(* rows are sequences of pixels, a colour pixel is a triple of channels.   *)
(* A file on disk holds an array in the on-disk channel order (B, G, R):   *)
(* cv2.imread returns that array and cv2.imwrite stores the array it is    *)
(* handed without looking at what its channels mean.                       *)
(***************************************************************************)
EXTENDS Integers, Sequences, FiniteSets, TLC

\* ------------------------------------------------------------------ bounds
MaxFiles == 2
MaxPixels == 2

\* ------------------------------------------------- characters and strings
DOT == 46
SLASH == 47
input_dir == <<105, 110>>

\* "a.j", "a.p", "b.j", "ab"
FileNames ==
  { <<97, 46, 106>>, <<97, 46, 112>>, <<98, 46, 106>>, <<97, 98>> }

\* os.path.join(input_dir, img)
PathJoin(dir, img) == dir \o <<SLASH>> \o img

\* Python's str comparison: code point by code point, a proper prefix first.
LexLess(a, b) ==
  \E k \in 1..(Len(a) + 1) :
    /\ \A i \in 1..(k - 1) : i <= Len(b) /\ a[i] = b[i]
    /\ \/ k = Len(a) + 1 /\ Len(b) >= k
       \/ k <= Len(a) /\ k <= Len(b) /\ a[k] < b[k]

RECURSIVE InsertSorted(_, _)
InsertSorted(s, x) ==
  IF s = <<>> THEN <<x>>
  ELSE IF LexLess(x, s[1]) THEN <<x>> \o s
  ELSE <<s[1]>> \o InsertSorted(Tail(s), x)

\* variant: the listing is walked in the order the file system gave it
sort_m(s) == s

\* list.sort() on the joined paths
RECURSIVE sort(_)
sort(s) ==
  IF s = <<>> THEN <<>> ELSE InsertSorted(sort(Tail(s)), s[1])

\* str.rfind(ch): 0-based index of the last occurrence, -1 when absent
rfind(s, ch) ==
  IF \E i \in 1..Len(s) : s[i] = ch
  THEN (CHOOSE i \in 1..Len(s) : s[i] = ch /\ \A j \in (i + 1)..Len(s) : s[j] # ch) - 1
  ELSE -1

\* s[:k] with Python's negative-index rule
SliceTo(s, k) ==
  LET stop == IF k < 0 THEN (IF Len(s) + k < 0 THEN 0 ELSE Len(s) + k)
              ELSE (IF k > Len(s) THEN Len(s) ELSE k)
  IN SubSeq(s, 1, stop)

\* path.split("/")[-1]
SplitLast(path) ==
  LET k == rfind(path, SLASH) IN SubSeq(path, k + 2, Len(path))

\* image_name = image_path.split("/")[-1]; image_name[: image_name.rfind(".")]
ImageNameOf(path) ==
  LET base == SplitLast(path) IN SliceTo(base, rfind(base, DOT))

\* ------------------------------------------------------------------ arrays
H(a) == Len(a)
W(a) == IF Len(a) = 0 THEN 0 ELSE Len(a[1])
Shape2(a) == <<H(a), W(a)>>

\* cv2.cvtColor(x, COLOR_BGR2RGB) and COLOR_RGB2BGR: swap channels 0 and 2
cvtColor(a) ==
  [i \in 1..H(a) |-> [j \in 1..W(a) |-> <<a[i][j][3], a[i][j][2], a[i][j][1]>>]]

\* cv2.imread of an unreadable file
NoImage == <<>>

Colors == { <<0, 0, 0>>, <<1, 3, 255>>, <<8, 255, 2>> }

Dims(maxPixels) ==
  { d \in (1..maxPixels) \X (1..maxPixels) : d[1] * d[2] <= maxPixels }

Arrays(d, vals) == [1..d[1] -> [1..d[2] -> vals]]

Images == UNION { Arrays(d, Colors) : d \in Dims(MaxPixels) }
DirImages == Arrays(<<1, 1>>, { <<0, 0, 0>>, <<1, 3, 255>> })

\* ---------------------------------------------------------------- geometry
\* parse_args: --image_size default
DefaultImageSize == 1024
\* preprocess(..., img_size=1024)
img_size == 1024
ImageSizes == {1, 3, 512, DefaultImageSize, 2048}

Max(a, b) == IF a >= b THEN a ELSE b

\* ResizeLongestSide.get_preprocess_shape: scale = T / max(h, w), each side
\* scaled and rounded half up: int(side * scale + 0.5)
get_preprocess_shape(oldh, oldw, long_side_length) ==
  LET m == Max(oldh, oldw)
  IN << (2 * oldh * long_side_length + m) \div (2 * m),
        (2 * oldw * long_side_length + m) \div (2 * m) >>

\* ResizeLongestSide.apply_image: the resized H x W x C array, kept as its
\* shape (the interpolated pixel values are not tracked)
apply_image(img, T) ==
  LET t == get_preprocess_shape(H(img), W(img), T) IN <<t[1], t[2], 3>>

\* torch.from_numpy(image).permute(2, 0, 1)
permute201(shape) == <<shape[3], shape[1], shape[2]>>

\* preprocess(x): normalise, then F.pad(x, (0, padw, 0, padh)) with
\* padh = img_size - h, padw = img_size - w; a negative pad crops.
\* pad is (left, right, top, bottom).
preprocess(xshape) ==
  LET h == xshape[2]
      w == xshape[3]
      padh == img_size - h
      padw == img_size - w
  IN [ shape |-> <<xshape[1], h + 0 + padh, w + 0 + padw>>,
       pad |-> <<0, padw, 0, padh>> ]

\* ------------------------------------------------------------------- masks
Scores == {-1, 0, 1}
RawMasks == UNION { Arrays(d, Scores) : d \in Dims(MaxPixels) }

\* The projection done inside model.evaluate from the geometry fields it is
\* handed: PredictedMask -> pre-pad region (resized) -> original resolution,
\* nearest neighbour, the content anchored at (0, 0).
ProjectIndex(i, n_out, n_mid, n_in) ==
  ((((i - 1) * n_mid) \div n_out) * n_in) \div n_mid + 1

PostprocessMask(raw, input_size, original_size) ==
  [i \in 1..original_size[1] |-> [j \in 1..original_size[2] |->
     raw[ProjectIndex(i, original_size[1], input_size[1], H(raw))]
        [ProjectIndex(j, original_size[2], input_size[2], W(raw))]]]

\* model.evaluate(image_clip, image, input_ids, resize_list,
\* original_size_list, ...): zero or more mask tensors (a stack of one 2-D
\* score array each), every one at original_size_list[0]
evaluate(n, raw, resize_list_arg, original_size_list_arg) ==
  [k \in 1..n |->
     <<PostprocessMask(raw, resize_list_arg[1], original_size_list_arg[1])>>]

\* np.zeros((h, w), dtype=np.uint8)
zeros_uint8(h, w) ==
  [dtype |-> "uint8", data |-> [i \in 1..h |-> [j \in 1..w |-> 0]]]

\* pred_masks[0].detach().cpu().numpy()[0]; pred_mask > 0
threshold(tensor) ==
  LET m == tensor[1]
  IN [dtype |-> "bool",
      data |-> [i \in 1..H(m) |-> [j \in 1..W(m) |-> m[i][j] > 0]]]

\* variant: the fallback mask is allocated with its axes exchanged
PredMaskOf_m(masks, img) ==
  IF Len(masks) = 0 THEN zeros_uint8(W(img), H(img)) ELSE threshold(masks[1])

\* lines 281-285
PredMaskOf(masks, img) ==
  IF Len(masks) = 0 THEN zeros_uint8(H(img), W(img)) ELSE threshold(masks[1])

\* pred_mask.astype(np.uint8)
AsUint8(pm, i, j) ==
  IF pm.dtype = "bool" THEN (IF pm.data[i][j] THEN 1 ELSE 0) ELSE pm.data[i][j]

\* pred_mask * 255 as cv2.imwrite stores it: a bool array is promoted to a
\* wide integer (0 or 255), a uint8 array stays uint8 (wraps modulo 256)
MaskTimes255(pm) ==
  [i \in 1..H(pm.data) |-> [j \in 1..W(pm.data) |->
     IF pm.dtype = "bool" THEN (IF pm.data[i][j] THEN 255 ELSE 0)
     ELSE (pm.data[i][j] * 255) % 256]]

Highlight == <<255, 0, 0>>

\* twice the float image_np * 0.5 + mask.astype(uint8) * [255, 0, 0] * 0.5
Blend2(img, pm, i, j, c) == img[i][j][c] + AsUint8(pm, i, j) * Highlight[c]

\* storing a non-negative float into a uint8 array: truncation, 8 bits
ToUint8(twice) == (twice \div 2) % 256

BlendPixel(img, pm, i, j) ==
  [c \in 1..3 |-> ToUint8(Blend2(img, pm, i, j, c))]

\* numpy raises on save_img[pred_mask] / the blend when the shapes differ
IndexRaises(img, pm) == Shape2(pm.data) # Shape2(img)

\* variant: the blend is assigned to the whole array, not to the selection
MaskedAssign_m(img, pm) ==
  [i \in 1..H(img) |-> [j \in 1..W(img) |-> BlendPixel(img, pm, i, j)]]

\* save_img = image_np.copy(); save_img[pred_mask] = blend[pred_mask]
\*   bool pred_mask: boolean mask, the True pixels are assigned
\*   integer pred_mask: every value v of pred_mask selects ROW v of the
\*   array, and that whole row is assigned from row v of the blend
MaskedAssign(img, pm) ==
  [i \in 1..H(img) |-> [j \in 1..W(img) |->
     IF pm.dtype = "bool"
     THEN (IF pm.data[i][j] THEN BlendPixel(img, pm, i, j) ELSE img[i][j])
     ELSE (IF \E a \in 1..H(pm.data), b \in 1..W(pm.data) : pm.data[a][b] = i - 1
           THEN BlendPixel(img, pm, i, j) ELSE img[i][j])]]

\* ------------------------------------------------------------------- state
VARIABLES
  image_size,          \* args.image_size
  listing,             \* os.listdir(input_dir), in the file system's order
  disk,                \* file name -> array cv2.imread returns (NoImage: None)
  img_paths,           \* the sorted list the loop walks
  idx,                 \* position of the loop in img_paths (0: not started)
  pc,                  \* the statement main is about to run
  image_name,
  image_np,
  original_size_list,
  resize_list,
  image,               \* the padded SAM-path tensor: its shape and its padding
  pred_masks,
  pred_mask,
  save_img,
  model_res,           \* resolution the network predicted at, this request
  fs,                  \* output_dir: images/, masks/, vis/ as name -> array
  log,                 \* model calls and file writes, in the order they happen
  failed_at            \* the statement whose exception ended the run

vars ==
  << image_size, listing, disk, img_paths, idx, pc, image_name, image_np,
     original_size_list, resize_list, image, pred_masks, pred_mask, save_img,
     model_res, fs, log, failed_at >>

locals ==
  << image_name, image_np, original_size_list, resize_list, image,
     pred_masks, pred_mask, save_img, model_res >>

env == << image_size, listing, disk >>

RECURSIVE Perms(_)
Perms(S) ==
  IF S = {} THEN { <<>> }
  ELSE UNION { { <<x>> \o p : p \in Perms(S \ {x}) } : x \in S }

Range(s) == { s[i] : i \in 1..Len(s) }

NoMask == [dtype |-> "none", data |-> <<>>]
NoTensor == [shape |-> <<>>, pad |-> <<>>]
EmptyDir == [n \in {} |-> <<>>]

InitProgram ==
  /\ img_paths = <<>>
  /\ idx = 0
  /\ pc = "listdir"
  /\ image_name = <<>>
  /\ image_np = <<>>
  /\ original_size_list = <<>>
  /\ resize_list = <<>>
  /\ image = NoTensor
  /\ pred_masks = <<>>
  /\ pred_mask = NoMask
  /\ save_img = <<>>
  /\ model_res = <<>>
  /\ fs = [images |-> EmptyDir, masks |-> EmptyDir, vis |-> EmptyDir]
  /\ log = <<>>
  /\ failed_at = "none"

\* a directory of up to MaxFiles one-pixel images, default --image_size
InitDirectory ==
  /\ image_size = DefaultImageSize
  /\ \E S \in SUBSET FileNames :
       /\ Cardinality(S) <= MaxFiles
       /\ listing \in Perms(S)
       /\ disk \in [S -> DirImages \cup {NoImage}]

\* a directory of one image of up to MaxPixels pixels, any --image_size
InitSingle ==
  /\ image_size \in ImageSizes
  /\ \E f \in {<<97, 46, 106>>} :
       /\ listing = <<f>>
       /\ disk \in [{f} -> Images]

Init == InitProgram /\ (InitDirectory \/ InitSingle)

\* ----------------------------------------------------------------- actions
Put(dir, name, data) ==
  [n \in (DOMAIN dir) \cup {name} |-> IF n = name THEN data ELSE dir[n]]

Entry(kind, data) ==
  [idx |-> idx, file |-> SplitLast(img_paths[idx]), kind |-> kind,
   name |-> image_name, data |-> data, nmasks |-> Len(pred_masks)]

\* variant: the loop body is wrapped in a handler that goes on to the next
\* image
Raise_m(stmt) ==
  /\ pc' = "loop"
  /\ failed_at' = stmt
  /\ UNCHANGED << env, img_paths, idx, locals, fs, log >>

\* an exception leaves the for loop and main: nothing catches it
Raise(stmt) ==
  /\ pc' = "crashed"
  /\ failed_at' = stmt
  /\ UNCHANGED << env, img_paths, idx, locals, fs, log >>

\* lines 119-121
ListAndSort ==
  /\ pc = "listdir"
  /\ img_paths' = sort([i \in 1..Len(listing) |-> PathJoin(input_dir, listing[i])])
  /\ pc' = "loop"
  /\ UNCHANGED << env, idx, locals, fs, log, failed_at >>

\* lines 233-235
LoopNext ==
  /\ pc = "loop"
  /\ idx < Len(img_paths)
  /\ idx' = idx + 1
  /\ image_name' = ImageNameOf(img_paths[idx + 1])
  /\ pc' = "imread"
  /\ model_res' = <<>>
  /\ UNCHANGED << env, img_paths, image_np, original_size_list, resize_list,
                  image, pred_masks, pred_mask, save_img, fs, log, failed_at >>

LoopEnd ==
  /\ pc = "loop"
  /\ idx = Len(img_paths)
  /\ pc' = "done"
  /\ UNCHANGED << env, img_paths, idx, locals, fs, log, failed_at >>

\* lines 237-239: cv2.cvtColor raises on the None of an unreadable file
ImRead ==
  /\ pc = "imread"
  /\ LET src == disk[SplitLast(img_paths[idx])]
     IN IF src = NoImage
        THEN Raise("imread")
        ELSE /\ image_np' = cvtColor(src)
             /\ original_size_list' = <<Shape2(cvtColor(src))>>
             /\ pc' = "clip"
             /\ UNCHANGED << env, img_paths, idx, image_name, resize_list, image,
                             pred_masks, pred_mask, save_img, model_res, fs, log, failed_at >>

\* lines 241-253: the CLIP-path tensor, opaque to the rest
ClipPreprocess ==
  /\ pc = "clip"
  /\ \/ Raise("clip")
     \/ /\ pc' = "transform"
        /\ UNCHANGED << env, img_paths, idx, locals, fs, log, failed_at >>

\* variant: resize_list records the shape of image_np, not of the resized
\* image
Transform_m ==
  /\ pc = "transform"
  /\ resize_list' = <<Shape2(image_np)>>
  /\ image' = [shape |-> apply_image(image_np, image_size), pad |-> <<>>]
  /\ pc' = "preprocess"
  /\ UNCHANGED << env, img_paths, idx, image_name, image_np,
                  original_size_list, pred_masks, pred_mask, save_img,
                  model_res, fs, log, failed_at >>

\* lines 255-256
Transform ==
  /\ pc = "transform"
  /\ LET resized == apply_image(image_np, image_size)
     IN \/ Raise("transform")
        \/ /\ resized[1] > 0 /\ resized[2] > 0
           /\ resize_list' = <<SubSeq(resized, 1, 2)>>
           /\ image' = [shape |-> resized, pad |-> <<>>]
           /\ pc' = "preprocess"
           /\ UNCHANGED << env, img_paths, idx, image_name, image_np,
                           original_size_list, pred_masks, pred_mask, save_img,
                           model_res, fs, log, failed_at >>

\* lines 258-268
Preprocess ==
  /\ pc = "preprocess"
  /\ \/ Raise("preprocess")
     \/ /\ image' = preprocess(permute201(image.shape))
        /\ pc' = "evaluate"
        /\ UNCHANGED << env, img_paths, idx, image_name, image_np,
                        original_size_list, resize_list, pred_masks, pred_mask,
                        save_img, model_res, fs, log, failed_at >>

MaxMasks == 2

\* what the network answers: no mask, or n >= 1 masks predicted at the
\* network's own output resolution
Responses ==
  { [n |-> 0, raw |-> <<>>] }
    \cup { [n |-> k, raw |-> m] : k \in 1..MaxMasks, m \in RawMasks }

\* lines 270-278
Evaluate ==
  /\ pc = "evaluate"
  /\ \/ Raise("evaluate")
     \/ \E r \in Responses :
          /\ pred_masks' = evaluate(r.n, r.raw, resize_list, original_size_list)
          /\ model_res' = Shape2(r.raw)
          /\ log' = Append(log, Entry("model", <<>>))
          /\ pc' = "assert"
          /\ UNCHANGED << env, img_paths, idx, image_name, image_np,
                          original_size_list, resize_list, image, pred_mask,
                          save_img, fs, failed_at >>

\* variant: the check on the number of masks is not made
AssertMasks_m ==
  /\ pc = "assert"
  /\ pc' = "threshold"
  /\ UNCHANGED << env, img_paths, idx, locals, fs, log, failed_at >>

\* line 279
AssertMasks ==
  /\ pc = "assert"
  /\ IF Len(pred_masks) <= 1
     THEN /\ pc' = "threshold"
          /\ UNCHANGED << env, img_paths, idx, locals, fs, log, failed_at >>
     ELSE Raise("assert")

\* lines 281-285
Threshold ==
  /\ pc = "threshold"
  /\ pred_mask' = PredMaskOf(pred_masks, image_np)
  /\ pc' = "write_image"
  /\ UNCHANGED << env, img_paths, idx, image_name, image_np, original_size_list,
                  resize_list, image, pred_masks, save_img, model_res, fs, log, failed_at >>

\* lines 287-289
WriteImage ==
  /\ pc = "write_image"
  /\ fs' = [fs EXCEPT !.images = Put(@, image_name, image_np)]
  /\ log' = Append(log, Entry("images", image_np))
  /\ pc' = "write_mask"
  /\ UNCHANGED << env, img_paths, idx, locals, failed_at >>

\* lines 291-293
WriteMask ==
  /\ pc = "write_mask"
  /\ fs' = [fs EXCEPT !.masks = Put(@, image_name, MaskTimes255(pred_mask))]
  /\ log' = Append(log, Entry("masks", MaskTimes255(pred_mask)))
  /\ pc' = "composite"
  /\ UNCHANGED << env, img_paths, idx, locals, failed_at >>

\* lines 295-300
Composite ==
  /\ pc = "composite"
  /\ IF IndexRaises(image_np, pred_mask)
     THEN Raise("composite")
     ELSE /\ save_img' = MaskedAssign(image_np, pred_mask)
          /\ pc' = "write_vis"
          /\ UNCHANGED << env, img_paths, idx, image_name, image_np,
                          original_size_list, resize_list, image, pred_masks,
                          pred_mask, model_res, fs, log, failed_at >>

\* lines 301-303
WriteVis ==
  /\ pc = "write_vis"
  /\ save_img' = cvtColor(save_img)
  /\ fs' = [fs EXCEPT !.vis = Put(@, image_name, cvtColor(save_img))]
  /\ log' = Append(log, Entry("vis", cvtColor(save_img)))
  /\ pc' = "loop"
  /\ UNCHANGED << env, img_paths, idx, image_name, image_np, original_size_list,
                  resize_list, image, pred_masks, pred_mask, model_res, failed_at >>

Next ==
  \/ ListAndSort
  \/ LoopNext
  \/ LoopEnd
  \/ ImRead
  \/ ClipPreprocess
  \/ Transform
  \/ Preprocess
  \/ Evaluate
  \/ AssertMasks
  \/ Threshold
  \/ WriteImage
  \/ WriteMask
  \/ Composite
  \/ WriteVis

Spec == Init /\ [][Next]_vars

\* ------------------------------------------------------------- properties
\* the image as ingested: decoded in on-disk order, converted once to RGB
Ingested(file) == cvtColor(disk[file])

CurrentFile == SplitLast(img_paths[idx])
Writes == {"images", "masks", "vis"}
LogIdx == 1..Len(log)

\* C1: when the model returns zero masks, the array written to vis/ equals
\* the ingested image pixel for pixel once brought back to RGB.
C1_NoMaskVisIsInput ==
  \A k \in LogIdx :
    (log[k].kind = "vis" /\ log[k].nmasks = 0)
      => cvtColor(log[k].data) = Ingested(log[k].file)

\* C8: with a returned mask, compositing leaves every pixel outside FinalMask
\* as ingested, sets every pixel inside it to the truncated 50/50 blend with
\* (255, 0, 0), and does not modify the ingested image.
C8_CompositeTouchesOnlyMask ==
  (pc = "write_vis" /\ Len(pred_masks) = 1) =>
    /\ image_np = Ingested(CurrentFile)
    /\ pred_mask.dtype = "bool"
    /\ Shape2(save_img) = Shape2(image_np)
    /\ \A i \in 1..H(image_np), j \in 1..W(image_np) :
         LET x == image_np[i][j]
             v == save_img[i][j]
         IN IF pred_mask.data[i][j]
            THEN /\ 2 * v[1] <= x[1] + 255 /\ x[1] + 255 <= 2 * v[1] + 1
                 /\ 2 * v[2] <= x[2] /\ x[2] <= 2 * v[2] + 1
                 /\ 2 * v[3] <= x[3] /\ x[3] <= 2 * v[3] + 1
                 /\ \A c \in 1..3 : v[c] \in 0..255
            ELSE v = x

C8_Witness ==
  /\ pc = "write_vis"
  /\ Len(pred_masks) = 1
  /\ \E i \in 1..H(image_np), j \in 1..W(image_np) :
       pred_mask.data[i][j] /\ image_np[i][j] = <<255, 3, 1>>
  /\ \E i \in 1..H(image_np), j \in 1..W(image_np) :
       ~pred_mask.data[i][j] /\ image_np[i][j] # <<0, 0, 0>>

\* C9: the file images/NAME.png, read back through the ingestion step, is
\* the ingested RGB image of that input.
C9_ImageCopyRoundTrips ==
  \A k \in LogIdx :
    log[k].kind = "images" => cvtColor(log[k].data) = Ingested(log[k].file)

\* C10: distinct files of the directory get distinct output names, and at
\* the end of the run every artifact a file wrote still holds what that
\* file wrote.
C10_ArtifactsNeverOverwritten ==
  pc = "done" =>
    /\ \A i, j \in 1..Len(img_paths) :
         i # j => ImageNameOf(img_paths[i]) # ImageNameOf(img_paths[j])
    /\ \A k \in LogIdx :
         log[k].kind \in Writes => fs[log[k].kind][log[k].name] = log[k].data

\* C6: the padded tensor has shape (C, T, T) for the configured target size
\* T = --image_size; the padding is at the bottom and right only and is
\* never negative.
C6_PaddedToTargetSize ==
  (image.pad # <<>> /\ Max(resize_list[1][1], resize_list[1][2]) = image_size) =>
    /\ image.shape = <<3, image_size, image_size>>
    /\ image.pad[1] = 0 /\ image.pad[3] = 0
    /\ image.pad[2] >= 0 /\ image.pad[4] >= 0

\* C7: resized height and width are both <= T and exactly one equals T.
C7_ExactlyOneSideIsT ==
  resize_list # <<>> =>
    LET rh == resize_list[1][1]
        rw == resize_list[1][2]
    IN /\ rh <= image_size /\ rw <= image_size
       /\ (rh = image_size) # (rw = image_size)

\* C7 (amended): resized height and width are both <= T and at least one of
\* them equals T; both do for a square image and when rounding takes the
\* shorter side up to T.
C7_LongestSideIsT ==
  resize_list # <<>> =>
    LET rh == resize_list[1][1]
        rw == resize_list[1][2]
    IN /\ rh <= image_size /\ rw <= image_size
       /\ (rh = image_size \/ rw = image_size)

C7_Witness ==
  /\ resize_list # <<>>
  /\ original_size_list[1][1] # original_size_list[1][2]
  /\ resize_list[1] = <<image_size, image_size>>

FsIsLastWrite ==
  \A kind \in Writes :
    /\ DOMAIN fs[kind] = { log[k].name : k \in { q \in LogIdx : log[q].kind = kind } }
    /\ \A k \in LogIdx :
         (log[k].kind = kind
            /\ \A q \in (k + 1)..Len(log) :
                 ~(log[q].kind = kind /\ log[q].name = log[k].name))
           => fs[kind][log[k].name] = log[k].data

C3_NoPartialArtifacts ==
  /\ failed_at \in {"imread", "clip", "transform", "preprocess", "evaluate", "assert"} =>
       \A k \in LogIdx : log[k].idx = idx => log[k].kind \notin Writes
  /\ Len(pred_masks) > 1 =>
       /\ pc \in {"assert", "crashed"}
       /\ pc = "crashed" => failed_at = "assert"
       /\ \A k \in LogIdx : log[k].idx = idx => log[k].kind \notin Writes

C3_Witness ==
  /\ failed_at = "assert"
  /\ Len(pred_masks) = 2
  /\ idx = 2
  /\ \E k \in LogIdx : log[k].kind = "vis"

\* C4: images are processed in ascending file-name order whatever the
\* enumeration order: the loop walks the one strictly ascending arrangement
\* of the directory's set of names, every model call and write belongs to
\* the image at its position, positions never go back, and an image has all
\* four of its steps (model call, images/, masks/, vis/) done, in that
\* order, before a later one begins.
C4_SortedOrder ==
  /\ pc # "listdir" =>
       /\ Len(img_paths) = Len(listing)
       /\ Range(img_paths) = { PathJoin(input_dir, f) : f \in Range(listing) }
       /\ \A i \in 1..(Len(img_paths) - 1) :
            LexLess(SplitLast(img_paths[i]), SplitLast(img_paths[i + 1]))
  /\ \A p \in LogIdx :
       /\ log[p].idx \in 1..idx
       /\ log[p].file = SplitLast(img_paths[log[p].idx])
       /\ \A q \in LogIdx : p < q => log[p].idx <= log[q].idx
  /\ \A i \in 1..idx :
       LET ks == { q \in LogIdx : log[q].idx = i }
           n == Cardinality(ks)
       IN /\ n <= 4
          /\ i < idx => n = 4
          /\ \A a \in ks :
               log[a].kind =
                 <<"model", "images", "masks", "vis">>[Cardinality({ b \in ks : b <= a })]

C4_Witness ==
  /\ pc = "done"
  /\ Len(log) = 8
  /\ Len(listing) = 2
  /\ LexLess(listing[2], listing[1])
  /\ log[1].file = listing[2]
  /\ log[8].file = listing[1]

====
